---- MODULE Spec2Model ----
(***************************************************************************)
(* rogue-star: n-body gravity with a collision rule and per-tick           *)
(* re-centring (src/orbits.py, src/planets.py).                            *)
(*                                                                         *)
(* Numbers.  The program computes in float64.  The model computes in exact *)
(* rationals n/d (lowest terms, d > 0), in scaled units in which G = 1 and *)
(* the collision radius 4e9 m is 2.  Bodies are placed on a line through   *)
(* the origin, along (1,0) or (3/5,4/5); update_planets keeps them on that *)
(* line, so every norm the program takes is the square root of the square  *)
(* of a rational and math.sqrt is modelled exactly.  A tick starts only    *)
(* from positions and velocities whose numerators and denominators are     *)
(* within MaxNum and MaxDen, which keeps the arithmetic inside TLC's       *)
(* integers.                                                               *)
(***************************************************************************)
EXTENDS Integers, Sequences, FiniteSets, TLC

\* ---------------------------------------------------------------- bounds
MaxCoord == 5       \* initial positions are t * dir, t in 0..MaxCoord
MaxTicks == 3       \* update_planets calls per run of Spec
MaxNum == 100       \* a tick starts only from numerators up to MaxNum ...
MaxDen == 36        \* ... and denominators up to MaxDen
MaxTrail == 3       \* trail_length values in SpecTrail
MaxAppends == 5     \* update_trail calls per run of SpecTrail

\* ------------------------------------------------------ program constants
G == 1                  \* 6.674e-11, in model units
CollisionRadius == 2    \* 4e9 m, in units of 2e9 m

\* ------------------------------------------------------------- rationals
Abs(a) == IF a < 0 THEN -a ELSE a

RECURSIVE GCD(_, _)
GCD(a, b) == IF b = 0 THEN a ELSE GCD(b, a % b)

Rat(n, d) ==
    LET s == IF d < 0 THEN -1 ELSE 1
        g == GCD(Abs(n), Abs(d))
    IN  [n |-> (s * n) \div g, d |-> (s * d) \div g]

Int2R(i) == [n |-> i, d |-> 1]
Zero == Int2R(0)

RNeg(a) == [n |-> -a.n, d |-> a.d]

RAdd(a, b) ==
    LET g == GCD(a.d, b.d)
    IN  Rat(a.n * (b.d \div g) + b.n * (a.d \div g), (a.d \div g) * b.d)

RSub(a, b) == RAdd(a, RNeg(b))

RMul(a, b) ==
    LET g1 == GCD(Abs(a.n), b.d)
        g2 == GCD(Abs(b.n), a.d)
    IN  IF a.n = 0 \/ b.n = 0 THEN Zero
        ELSE [n |-> (a.n \div g1) * (b.n \div g2), d |-> (a.d \div g2) * (b.d \div g1)]

\* a / b for b # 0 (the callers test b = 0 first: Python raises there)
RDiv(a, b) == RMul(a, Rat(b.d, b.n))

RLt(a, b) == a.n * b.d < b.n * a.d

\* floor of the square root of a natural number, by bisection
RECURSIVE ISqrtIn(_, _, _)
ISqrtIn(s, lo, hi) ==
    IF lo >= hi THEN lo
    ELSE LET mid == (lo + hi + 1) \div 2
         IN  IF mid * mid <= s THEN ISqrtIn(s, mid, hi) ELSE ISqrtIn(s, lo, mid - 1)

ISqrt(s) == ISqrtIn(s, 0, IF s < 46340 THEN s ELSE 46340)

\* math.sqrt, exact on the squares of rationals
RSqrt(a) == [n |-> ISqrt(a.n), d |-> ISqrt(a.d)]

\* ----------------------------------------------------------------- Point
Point(x, y) == [x |-> x, y |-> y]
Origin == Point(Zero, Zero)

PAdd(p, q) == Point(RAdd(p.x, q.x), RAdd(p.y, q.y))
PSub(p, q) == Point(RSub(p.x, q.x), RSub(p.y, q.y))
PMul(p, c) == Point(RMul(c, p.x), RMul(c, p.y))
PDiv(p, c) == Point(RDiv(p.x, c), RDiv(p.y, c))
PNorm(p) == RSqrt(RAdd(RMul(p.x, p.x), RMul(p.y, p.y)))
Normalized(p) == PDiv(p, PNorm(p))

\* ---------------------------------------------------------------- Planet
Planet(name, pos, vel, mass, trail_length) ==
    [name |-> name, pos |-> pos, vel |-> vel, mass |-> mass,
     accel |-> Origin, trail_length |-> trail_length,
     x_trail |-> <<>>, y_trail |-> <<>>, destroyed |-> FALSE]

update_planet(p, delta) ==
    [p EXCEPT !.pos = PAdd(p.pos, PMul(p.vel, Int2R(delta))),
              !.vel = PAdd(p.vel, PMul(p.accel, Int2R(delta))),
              !.accel = Origin]

\* update_trail with the eviction test off by one: >= for >
update_trail_eager(p) ==
    LET xs == Append(p.x_trail, p.pos.x)
        ys == Append(p.y_trail, p.pos.y)
    IN  IF Len(xs) >= p.trail_length
        THEN [p EXCEPT !.x_trail = Tail(xs), !.y_trail = Tail(ys)]
        ELSE [p EXCEPT !.x_trail = xs, !.y_trail = ys]

update_trail(p) ==
    LET xs == Append(p.x_trail, p.pos.x)
        ys == Append(p.y_trail, p.pos.y)
    IN  IF Len(xs) > p.trail_length
        THEN [p EXCEPT !.x_trail = Tail(xs), !.y_trail = Tail(ys)]
        ELSE [p EXCEPT !.x_trail = xs, !.y_trail = ys]

\* r of compute_forces
Separation(p1, p2) == PNorm(PSub(p1.pos, p2.pos))

\* F of compute_forces at separation r
Gravity(p1, p2, r) == RDiv(Int2R(G * p1.mass * p2.mass), RMul(r, r))

\* direction * F of compute_forces, for r # 0
ForceAlong(p1, p2, displace) ==
    PMul(Normalized(displace), Gravity(p1, p2, PNorm(displace)))

ForceVector(p1, p2) == ForceAlong(p1, p2, PSub(p1.pos, p2.pos))

\* the collision rule with r <= radius for r < radius
CollisionVictimInclusive(p1, p2) ==
    IF ~RLt(Int2R(CollisionRadius), Separation(p1, p2))
    THEN IF p1.mass < p2.mass THEN 1 ELSE 2
    ELSE 0

\* the collision rule with mass1 <= mass2 for mass1 < mass2
CollisionVictimTieFirst(p1, p2) ==
    IF RLt(Separation(p1, p2), Int2R(CollisionRadius))
    THEN IF p1.mass <= p2.mass THEN 1 ELSE 2
    ELSE 0

\* which body of the pair the collision rule flags: 0 none, 1 p1, 2 p2
CollisionVictim(p1, p2) ==
    IF RLt(Separation(p1, p2), Int2R(CollisionRadius))
    THEN IF p1.mass < p2.mass THEN 1 ELSE 2
    ELSE 0

\* the accelerations with both forces divided by the first body's mass
AccelerateByFirstMass(p1, p2, dF, v) ==
    << [p1 EXCEPT !.accel = PSub(p1.accel, PDiv(dF, Int2R(p1.mass))),
                  !.destroyed = IF v = 1 THEN TRUE ELSE @],
       [p2 EXCEPT !.accel = PAdd(p2.accel, PDiv(dF, Int2R(p1.mass))),
                  !.destroyed = IF v = 2 THEN TRUE ELSE @] >>

\* the pair after the accelerations have taken dF and the collision rule has
\* flagged body v
Accelerate(p1, p2, dF, v) ==
    << [p1 EXCEPT !.accel = PSub(p1.accel, PDiv(dF, Int2R(p1.mass))),
                  !.destroyed = IF v = 1 THEN TRUE ELSE @],
       [p2 EXCEPT !.accel = PAdd(p2.accel, PDiv(dF, Int2R(p2.mass))),
                  !.destroyed = IF v = 2 THEN TRUE ELSE @] >>

\* compute_forces(p1, p2) for r # 0: the pair after the call
compute_forces(p1, p2) ==
    Accelerate(p1, p2, ForceVector(p1, p2), CollisionVictim(p1, p2))

\* itertools.combinations(range(1, n + 1), 2), in its order
RECURSIVE CombinationsFrom(_, _, _)
CombinationsFrom(i, j, n) ==
    IF i >= n THEN <<>>
    ELSE IF j > n THEN CombinationsFrom(i + 1, i + 2, n)
    ELSE <<(<<i, j>>)>> \o CombinationsFrom(i, j + 1, n)

\* only the neighbouring pairs <<i, i + 1>>
CombinationsAdjacent(n) == [i \in 1..(IF n > 0 THEN n - 1 ELSE 0) |-> <<i, i + 1>>]

Combinations(n) == CombinationsFrom(1, 2, n)

\* ------------------------------------------------------------ the mapping
\* planets is a dict in insertion order: a sequence of Planet records with
\* unique names
\* the keys of the modelled mapping, in insertion order: the sun first, the
\* rogue last, one planet of initialize_planets between them
NameList == <<"sun", "earth", "rogue">>

Keys(ps) == {ps[i].name : i \in 1..Len(ps)}

\* the position of key k in ps, 0 when ps has no such key
IndexOf(ps, k) ==
    IF k \in Keys(ps) THEN CHOOSE i \in 1..Len(ps) : ps[i].name = k ELSE 0

RECURSIVE Without(_, _)
\* ps after "for k in deleted: del planets[k]"
Without(ps, deleted) ==
    IF ps = <<>> THEN <<>>
    ELSE IF \E i \in 1..Len(deleted) : deleted[i] = Head(ps).name
         THEN Without(Tail(ps), deleted)
         ELSE <<Head(ps)>> \o Without(Tail(ps), deleted)

\* ps with the bodies at i and j replaced by the pair r
WithPair(ps, i, j, r) == [ps EXCEPT ![i] = r[1], ![j] = r[2]]

\* one iteration of the force loop of update_planets, on the pair c = <<i, j>>
ForceStep(ps, c) == WithPair(ps, c[1], c[2], compute_forces(ps[c[1]], ps[c[2]]))

\* p.pos = p.pos - sun_pos; p.vel = p.vel - sun_vel
Shift(q, spos, svel) == [q EXCEPT !.pos = PSub(q.pos, spos), !.vel = PSub(q.vel, svel)]

\* one iteration of the update loop of update_planets, on the k-th item
Recentre(p, spos, svel, d) == Shift(update_planet(p, d), spos, svel)

IntegrateStep(ps, k, spos, svel, d) == [ps EXCEPT ![k] = Recentre(ps[k], spos, svel, d)]

\* ------------------------------------------------------------------ state
VARIABLES
    planets,        \* the mapping name -> Planet, in insertion order
    center_on,      \* update_planets' and simulate's center_on
    delta,          \* update_planets' delta
    pc,             \* where the run is: "idle", "forces", "update", "sim",
                    \* "trail", "done", "raised"
    err,            \* the exception raised, "" when none
    \* inside update_planets
    combos,         \* the pairs the force loop iterates over
    pair_i,         \* the force loop's position in combos
    sun_pos,        \* update_planets' sun_pos
    sun_vel,        \* update_planets' sun_vel
    item_k,         \* the update loop's position in planets.items()
    deleted,        \* update_planets' deleted
    ticks,          \* update_planets calls completed
    pre,            \* history: planets when the current tick started
    calls,          \* history: the name pairs compute_forces has run on this tick
    integrated,     \* history: the names updated so far this tick
    \* inside simulate
    days_per_frame, \* args.days_per_frame
    initial_frame,  \* simulate's initial_frame
    days_elapsed,   \* simulate's days_elapsed
    frame_i,        \* simulate's frame_i
    j,              \* the inner loop's j: ticks run of the current batch
    emitted,        \* history: frames handed to plot_planets
    last_frame,     \* history: <<frame_i, day>> of the last one, <<>> before it
    batch,          \* history: update_planets calls since the last frame
    trail_updates,  \* history: update_trail calls, per name
    \* update_trail alone
    samples         \* history: every position update_trail was called at

tickVars == <<combos, pair_i, sun_pos, sun_vel, item_k, deleted, ticks, pre, calls,
              integrated>>
simVars == <<days_per_frame, initial_frame, days_elapsed, frame_i, j, emitted,
             last_frame, batch, trail_updates>>

vars == <<planets, center_on, delta, pc, err, tickVars, simVars, samples>>

TickIdle ==
    /\ combos = <<>>
    /\ pair_i = 0
    /\ sun_pos = Origin
    /\ sun_vel = Origin
    /\ item_k = 0
    /\ deleted = <<>>
    /\ ticks = 0
    /\ pre = planets
    /\ calls = <<>>
    /\ integrated = <<>>

SimIdle ==
    /\ days_per_frame = 0
    /\ initial_frame = 0
    /\ days_elapsed = 0
    /\ frame_i = 0
    /\ j = 0
    /\ emitted = 0
    /\ last_frame = <<>>
    /\ batch = 0
    /\ trail_updates = [k \in {} |-> 0]

\* ------------------------------------------------------------ Spec: ticks
Dirs == {Point(Int2R(1), Int2R(0)), Point(Rat(3, 5), Rat(4, 5))}
Masses == {1, 2}
Speeds == {-1, 0}
Deltas == {1, 2}

\* bodies on the line along dir: the first at rest at the origin (the sun of
\* initialize_planets), the others at t * dir moving at s * dir
InitBody(i, dir, t, s, m) ==
    Planet(NameList[i], PMul(dir, Int2R(t)), PMul(dir, Int2R(s)), m, 0)

Init ==
    /\ \E n \in 1..Len(NameList), dir \in Dirs :
         \E t \in [2..n -> 0..MaxCoord], s \in [2..n -> Speeds], m \in [1..n -> Masses] :
           planets = [i \in 1..n |->
                        IF i = 1 THEN InitBody(1, dir, 0, 0, m[1])
                        ELSE InitBody(i, dir, t[i], s[i], m[i])]
    /\ center_on \in Keys(planets)
    /\ delta \in Deltas
    /\ pc = "idle"
    /\ err = ""
    /\ TickIdle
    /\ SimIdle
    /\ samples = <<>>

SmallR(a) == Abs(a.n) <= MaxNum /\ a.d <= MaxDen
SmallP(p) == SmallR(p.x) /\ SmallR(p.y)
Representable(ps) == \A i \in 1..Len(ps) : SmallP(ps[i].pos) /\ SmallP(ps[i].vel)

\* update_planets is called
Call ==
    /\ pc = "idle"
    /\ ticks < MaxTicks
    /\ Representable(planets)
    /\ pc' = "forces"
    /\ combos' = Combinations(Len(planets))
    /\ pair_i' = 1
    /\ pre' = planets
    /\ calls' = <<>>
    /\ integrated' = <<>>
    /\ UNCHANGED <<planets, center_on, delta, err, sun_pos, sun_vel, item_k, deleted, ticks, simVars, samples>>

\* one compute_forces(p1, p2) of the force loop
Force ==
    /\ pc = "forces"
    /\ pair_i <= Len(combos)
    /\ LET c == combos[pair_i] IN
         /\ planets[c[1]].pos # planets[c[2]].pos
         /\ planets' = ForceStep(planets, c)
         /\ calls' = Append(calls, <<planets[c[1]].name, planets[c[2]].name>>)
    /\ pair_i' = pair_i + 1
    /\ UNCHANGED <<center_on, delta, pc, err, combos, sun_pos, sun_vel, item_k, deleted, ticks, pre, integrated, simVars, samples>>

\* compute_forces on two bodies at one position: normalized() divides by zero
ForceRaise ==
    /\ pc = "forces"
    /\ pair_i <= Len(combos)
    /\ LET c == combos[pair_i] IN planets[c[1]].pos = planets[c[2]].pos
    /\ pc' = "raised"
    /\ err' = "ZeroDivisionError"
    /\ UNCHANGED <<planets, center_on, delta, tickVars, simVars, samples>>

\* after the force loop: deleted = [], the snapshot of planets[center_on]
Snapshot ==
    /\ pc = "forces"
    /\ pair_i > Len(combos)
    /\ center_on \in Keys(planets)
    /\ deleted' = <<>>
    /\ sun_pos' = planets[IndexOf(planets, center_on)].pos
    /\ sun_vel' = planets[IndexOf(planets, center_on)].vel
    /\ item_k' = 1
    /\ pc' = "update"
    /\ UNCHANGED <<planets, center_on, delta, err, combos, pair_i, ticks, pre, calls, integrated, simVars, samples>>

\* planets[center_on] when the mapping has no such key
SnapshotRaise ==
    /\ pc = "forces"
    /\ pair_i > Len(combos)
    /\ center_on \notin Keys(planets)
    /\ pc' = "raised"
    /\ err' = "KeyError"
    /\ UNCHANGED <<planets, center_on, delta, tickVars, simVars, samples>>

\* the update loop deleting a flagged body as soon as it has updated it
UpdateDeletingAtOnce ==
    /\ pc = "update"
    /\ item_k <= Len(planets)
    /\ planets' = Without(IntegrateStep(planets, item_k, sun_pos, sun_vel, delta),
                          IF planets[item_k].destroyed
                          THEN <<planets[item_k].name>> ELSE <<>>)
    /\ integrated' = Append(integrated, planets[item_k].name)
    /\ item_k' = IF planets[item_k].destroyed THEN item_k ELSE item_k + 1
    /\ UNCHANGED <<center_on, delta, pc, err, combos, pair_i, sun_pos, sun_vel,
                   deleted, ticks, pre, calls, simVars, samples>>

\* one iteration of "for k, p in planets.items()"
Update ==
    /\ pc = "update"
    /\ item_k <= Len(planets)
    /\ planets' = IntegrateStep(planets, item_k, sun_pos, sun_vel, delta)
    /\ deleted' = IF planets[item_k].destroyed
                  THEN Append(deleted, planets[item_k].name) ELSE deleted
    /\ integrated' = Append(integrated, planets[item_k].name)
    /\ item_k' = item_k + 1
    /\ UNCHANGED <<center_on, delta, pc, err, combos, pair_i, sun_pos, sun_vel, ticks, pre, calls, simVars, samples>>

\* "for k in deleted: del planets[k]", and update_planets returns
Delete ==
    /\ pc = "update"
    /\ item_k > Len(planets)
    /\ planets' = Without(planets, deleted)
    /\ pc' = "idle"
    /\ ticks' = ticks + 1
    /\ UNCHANGED <<center_on, delta, err, combos, pair_i, sun_pos, sun_vel, item_k, deleted, pre, calls, integrated, simVars, samples>>

Next == Call \/ Force \/ ForceRaise \/ Snapshot \/ SnapshotRaise \/ Update \/ Delete

Spec == Init /\ [][Next]_vars

\* ------------------------------------------- update_planets as one step
\* the force loop over the pairs cs, stopping at the first pair that raises
RECURSIVE ForcePass(_, _)
ForcePass(ps, cs) ==
    IF cs = <<>> THEN [ps |-> ps, err |-> ""]
    ELSE IF ps[Head(cs)[1]].pos = ps[Head(cs)[2]].pos
         THEN [ps |-> ps, err |-> "ZeroDivisionError"]
         ELSE ForcePass(ForceStep(ps, Head(cs)), Tail(cs))

\* the keys the update loop appends to deleted, in its order
RECURSIVE Flagged(_)
Flagged(ps) ==
    IF ps = <<>> THEN <<>>
    ELSE (IF Head(ps).destroyed THEN <<Head(ps).name>> ELSE <<>>) \o Flagged(Tail(ps))

\* the update loop, with the snapshot taken from the body at position k
UpdateAll(ps, k, d) == [i \in 1..Len(ps) |-> Recentre(ps[i], ps[k].pos, ps[k].vel, d)]

\* the mapping after "for k in deleted: del planets[k]"
Swept(ps) == Without(ps, Flagged(ps))

\* update_planets after its force loop left f
AfterForces(f, c, d) ==
    IF f.err # "" THEN f
    ELSE IF c \notin Keys(f.ps) THEN [ps |-> f.ps, err |-> "KeyError"]
    ELSE [ps |-> Swept(UpdateAll(f.ps, IndexOf(f.ps, c), d)), err |-> ""]

\* update_planets(planets, center_on, delta): the mapping it leaves and the
\* exception it raises, "" when it returns
UpdatePlanets(ps, c, d) == AfterForces(ForcePass(ps, Combinations(Len(ps))), c, d)

\* --------------------------------------------------------------- simulate
days_to_pass == 600
HoursPerDay == 24
SimDelta == 3600
DaysPerFrames == {5, 7}
\* the two calls of the main block: simulate(args, center_on='sun'), then
\* simulate(args, center_on='rogue', initial_frame=frame)
Runs == {<<"sun", 0>>, <<"rogue", 600>>}
SolarMasses == {1, 2}

\* days = int(5 * days_to_pass)
days == 5 * days_to_pass

\* a batch of one tick per day
TicksPerFrameDaily(dpf) == dpf

\* range(args.days_per_frame * 24)
TicksPerFrame(dpf) == dpf * HoursPerDay

\* trail_length of Planet.in_orbit for an orbital period of 365 days or more:
\* int(0.8 * (365 / days_per_frame))
OrbitTrailLength(dpf) == (4 * 365) \div (5 * dpf)

\* initialize_planets plus produce_rogue, scaled down to the sun, one planet
\* and the rogue of solar_mass suns, and started at the encounter: the three
\* are closer to each other than the collision radius
SimPlanets(dpf, solar_mass) ==
    << Planet("sun", Origin, Origin, 2, 0),
       Planet("earth", Point(Rat(1, 2), Zero), Point(Zero, Int2R(-1)), 1,
              OrbitTrailLength(dpf)),
       Planet("rogue", Point(Int2R(1), Zero), Point(Int2R(-1), Zero),
              2 * solar_mass, 0) >>

\* plot_planets: every body of the mapping samples its position
plot_planets(ps) == [i \in 1..Len(ps) |-> update_trail(ps[i])]

InitSim ==
    /\ days_per_frame \in DaysPerFrames
    /\ \E run \in Runs : center_on = run[1] /\ initial_frame = run[2]
    /\ \E solar_mass \in SolarMasses : planets = SimPlanets(days_per_frame, solar_mass)
    /\ delta = SimDelta
    /\ days_elapsed = 0
    /\ frame_i = initial_frame
    /\ j = 0
    /\ pc = "sim"
    /\ err = ""
    /\ emitted = 0
    /\ last_frame = <<>>
    /\ batch = 0
    /\ trail_updates = [k \in Keys(planets) |-> 0]
    /\ TickIdle
    /\ samples = <<>>

\* one update_planets(planets, center_on=center_on, delta=3600) of the inner loop
SimTick ==
    /\ pc = "sim"
    /\ days_elapsed < days
    /\ j < TicksPerFrame(days_per_frame)
    /\ LET r == UpdatePlanets(planets, center_on, delta) IN
         /\ r.err = ""
         /\ planets' = r.ps
    /\ j' = j + 1
    /\ batch' = batch + 1
    /\ UNCHANGED <<center_on, delta, pc, err, tickVars, days_per_frame, initial_frame,
                   days_elapsed, frame_i, emitted, last_frame, trail_updates, samples>>

\* the same call when it raises: simulate does not catch it
SimTickRaise ==
    /\ pc = "sim"
    /\ days_elapsed < days
    /\ j < TicksPerFrame(days_per_frame)
    /\ LET r == UpdatePlanets(planets, center_on, delta) IN
         /\ r.err # ""
         /\ err' = r.err
    /\ pc' = "raised"
    /\ UNCHANGED <<planets, center_on, delta, tickVars, simVars, samples>>

\* after the batch: plot_planets(fig, planets, args, frame_i, days_elapsed),
\* frame_i += 1, days_elapsed += args.days_per_frame
SimPlot ==
    /\ pc = "sim"
    /\ days_elapsed < days
    /\ j = TicksPerFrame(days_per_frame)
    /\ planets' = plot_planets(planets)
    /\ frame_i' = frame_i + 1
    /\ days_elapsed' = days_elapsed + days_per_frame
    /\ j' = 0
    /\ emitted' = emitted + 1
    /\ last_frame' = <<frame_i, days_elapsed>>
    /\ batch' = 0
    /\ trail_updates' = [k \in DOMAIN trail_updates |->
                           IF k \in Keys(planets) THEN trail_updates[k] + 1
                           ELSE trail_updates[k]]
    /\ UNCHANGED <<center_on, delta, pc, err, tickVars, days_per_frame, initial_frame,
                   samples>>

\* the while test fails: return frame_i
SimReturn ==
    /\ pc = "sim"
    /\ j = 0
    /\ days_elapsed >= days
    /\ pc' = "done"
    /\ UNCHANGED <<planets, center_on, delta, err, tickVars, simVars, samples>>

NextSim == SimTick \/ SimTickRaise \/ SimPlot \/ SimReturn

SpecSim == InitSim /\ [][NextSim]_vars

\* ----------------------------------------------------------- update_trail
TrailPositions == {Point(Int2R(k), Int2R(-k - 1)) : k \in 0..2}

InitTrail ==
    /\ \E len \in 0..MaxTrail :
         planets = <<Planet("earth", Point(Int2R(0), Int2R(-1)), Origin, 1, len)>>
    /\ center_on = "earth"
    /\ delta = 1
    /\ pc = "trail"
    /\ err = ""
    /\ TickIdle
    /\ SimIdle
    /\ samples = <<>>

\* the body is at some position when update_trail is called on it
UpdateTrail ==
    /\ pc = "trail"
    /\ Len(samples) < MaxAppends
    /\ \E p \in TrailPositions :
         /\ planets' = <<update_trail([planets[1] EXCEPT !.pos = p])>>
         /\ samples' = Append(samples, p)
    /\ UNCHANGED <<center_on, delta, pc, err, tickVars, simVars>>

SpecTrail == InitTrail /\ [][UpdateTrail]_vars

\* ----------------------------------------------------- claims on the tick
Returned == pc = "idle" /\ ticks > 0

Body(ps, k) == ps[IndexOf(ps, k)]

\* C1 (as claimed): when update_planets returns, the body named center_on, if
\* it is still in the mapping, has position exactly (0,0) and velocity
\* exactly (0,0).
C1_ReferenceAtOrigin ==
    (Returned /\ center_on \in Keys(planets)) =>
        /\ Body(planets, center_on).pos = Origin
        /\ Body(planets, center_on).vel = Origin

\* C2 (as claimed): once a tick has removed the body named center_on, no
\* update_planets call of the run raises for want of it.
C2_RemovingReferenceNeverRaises ==
    center_on \notin Keys(planets) => err # "KeyError"

\* a step of the force loop that ran compute_forces to its end
ForceDone == pc = "forces" /\ pc' = "forces" /\ pair_i' = pair_i + 1

SquaredDistance(p, q) ==
    LET dx == RSub(p.x, q.x)
        dy == RSub(p.y, q.y)
    IN  RAdd(RMul(dx, dx), RMul(dy, dy))

C3_Rule(p1, p2, q1, q2) ==
    IF RLt(SquaredDistance(p1.pos, p2.pos), Int2R(CollisionRadius * CollisionRadius))
    THEN IF p1.mass < p2.mass
         THEN q1.destroyed /\ q2.destroyed = p2.destroyed
         ELSE q2.destroyed /\ q1.destroyed = p1.destroyed
    ELSE q1.destroyed = p1.destroyed /\ q2.destroyed = p2.destroyed

\* C3: every compute_forces(p1, p2) call that returns has flagged, when the
\* separation is below the collision radius, p1 if mass(p1) < mass(p2) and p2
\* otherwise (equal masses: p2), and only that body; at the radius or beyond
\* it has changed neither flag.
C3_CollisionRule ==
    [][ForceDone =>
          LET c == combos[pair_i]
          IN  C3_Rule(planets[c[1]], planets[c[2]], planets'[c[1]], planets'[c[2]])]_vars

\* a pair of equal masses closer than the radius has just been through
\* compute_forces, and the second body alone was flagged
C3_Witness ==
    /\ pc = "forces"
    /\ pair_i > 1
    /\ LET c == combos[pair_i - 1] IN
         /\ pre[c[1]].mass = pre[c[2]].mass
         /\ RLt(SquaredDistance(pre[c[1]].pos, pre[c[2]].pos), Int2R(CollisionRadius * CollisionRadius))
         /\ planets[c[2]].destroyed
         /\ ~planets[c[1]].destroyed

WeightedAccel(p) == PMul(p.accel, Int2R(p.mass))

RECURSIVE SumWeightedAccel(_)
SumWeightedAccel(ps) ==
    IF ps = <<>> THEN Origin
    ELSE PAdd(WeightedAccel(Head(ps)), SumWeightedAccel(Tail(ps)))

C6_PairBalanced(p1, p2, q1, q2) ==
    PMul(PSub(q1.accel, p1.accel), Int2R(p1.mass))
        = PMul(PSub(p2.accel, q2.accel), Int2R(p2.mass))

\* C6: one compute_forces(p1, p2) call on bodies at distinct positions changes
\* the accelerations so that mass(p1) * (change of p1.accel) is the opposite of
\* mass(p2) * (change of p2.accel); and when the force loop has run over all
\* pairs the mass-weighted sum of the accelerations is zero.
C6_EqualAndOpposite ==
    /\ [][ForceDone =>
            LET c == combos[pair_i]
            IN  C6_PairBalanced(planets[c[1]], planets[c[2]],
                                planets'[c[1]], planets'[c[2]])]_vars
    /\ []((pc = "forces" /\ pair_i > Len(combos)) => SumWeightedAccel(planets) = Origin)

\* a force pass over three bodies of unequal masses has ended, every body
\* with a non-zero acceleration
C6_Witness ==
    /\ pc = "forces"
    /\ pair_i > Len(combos)
    /\ Len(planets) = 3
    /\ planets[1].mass # planets[2].mass
    /\ \A i \in 1..3 : planets[i].accel # Origin

UnorderedCalls == {{calls[i][1], calls[i][2]} : i \in 1..Len(calls)}

PairsOf(S) == {{a, b} : <<a, b>> \in {x \in S \X S : x[1] # x[2]}}

\* C7: in every tick compute_forces runs on each unordered pair of the bodies
\* in the mapping at the start of the tick exactly once, and while these calls
\* run no position and no velocity differs from its value at the start of the
\* tick.
C7_ForcesBeforeIntegration ==
    /\ pc = "forces" =>
         /\ Len(planets) = Len(pre)
         /\ \A i \in 1..Len(planets) :
              planets[i].pos = pre[i].pos /\ planets[i].vel = pre[i].vel
         /\ Cardinality(UnorderedCalls) = Len(calls)
         /\ UnorderedCalls \subseteq PairsOf(Keys(pre))
    /\ pc = "update" =>
         /\ UnorderedCalls = PairsOf(Keys(pre))
         /\ Cardinality(UnorderedCalls) = Len(calls)

\* the update loop is running after a force pass over three pairs
C7_Witness == pc = "update" /\ item_k = 2 /\ Len(calls) = 3

NamesOf(ps) == [i \in 1..Len(ps) |-> ps[i].name]

\* C8: a body flagged during the force pass stays in the mapping through the
\* rest of the pass and the whole update loop, which updates it like the
\* others; when update_planets returns the mapping holds no flagged body and
\* only bodies it held at the start of the tick.
C8_DeferredRemoval ==
    /\ pc \in {"forces", "update"} => NamesOf(planets) = NamesOf(pre)
    /\ (pc = "update" /\ item_k > Len(planets)) =>
         /\ integrated = NamesOf(pre)
         /\ UnorderedCalls = PairsOf(Keys(pre))
    /\ pc = "idle" =>
         /\ \A i \in 1..Len(planets) : ~planets[i].destroyed
         /\ Keys(planets) \subseteq Keys(pre)

\* a tick that flagged a body has returned without it, having updated it
C8_Witness ==
    /\ Returned
    /\ Len(planets) < Len(pre)
    /\ \E i \in 1..Len(integrated) : integrated[i] \notin Keys(planets)

MaxMass(ps) == CHOOSE m \in {ps[i].mass : i \in 1..Len(ps)} :
                   \A i \in 1..Len(ps) : ps[i].mass <= m

\* the first body, in the mapping's order, among those of maximum mass
FirstHeaviest(ps) ==
    ps[CHOOSE i \in 1..Len(ps) :
         /\ ps[i].mass = MaxMass(ps)
         /\ \A k \in 1..(i - 1) : ps[k].mass < MaxMass(ps)]

\* C10: the mapping never becomes empty, the first of its heaviest bodies is
\* never flagged destroyed, and no step changes which body that is.
C10_FirstHeaviestSurvives ==
    /\ [](planets # <<>> /\ ~FirstHeaviest(planets).destroyed)
    /\ [][FirstHeaviest(planets').name = FirstHeaviest(planets).name]_vars

\* a tick has removed a body as heavy as the first heaviest one
C10_Witness ==
    /\ Returned
    /\ \E i \in 1..Len(pre) :
         /\ pre[i].name \notin Keys(planets)
         /\ pre[i].mass = MaxMass(pre)

\* a tick of Spec does what update_planets as one step does
TickIsUpdatePlanets ==
    /\ Returned => UpdatePlanets(pre, center_on, delta) = [ps |-> planets, err |-> ""]
    /\ pc = "raised" => UpdatePlanets(pre, center_on, delta).err = err

\* ------------------------------------------------ claims on update_trail
Min(a, b) == IF a < b THEN a ELSE b

\* the last n elements of the sequence q
LastOf(q, n) == SubSeq(q, Len(q) - n + 1, Len(q))

\* C4: after any number of update_trail calls the x and y trails have one
\* length, the smaller of trail_length and the number of calls, and hold the
\* coordinates of the most recent samples, oldest first.
C4_TrailIsBoundedFifo ==
    LET p == planets[1]
        kept == LastOf(samples, Min(Len(samples), p.trail_length))
    IN  /\ Len(p.x_trail) = Len(p.y_trail)
        /\ Len(p.x_trail) <= p.trail_length
        /\ Len(samples) > p.trail_length => Len(p.x_trail) = p.trail_length
        /\ p.x_trail = [i \in 1..Len(kept) |-> kept[i].x]
        /\ p.y_trail = [i \in 1..Len(kept) |-> kept[i].y]

\* a trail of length 2 has evicted its oldest sample and kept two newer,
\* different ones
C4_Witness ==
    /\ pc = "trail"
    /\ planets[1].trail_length = 2
    /\ Len(samples) > 2
    /\ Len(planets[1].x_trail) = 2
    /\ samples[1].x # planets[1].x_trail[1]
    /\ planets[1].x_trail[1] # planets[1].x_trail[2]

\* -------------------------------------------------- claims on simulate
\* C5 (as claimed): every run of simulate ends by returning, with the day
\* counter at or past the 3000-day budget, and with days_per_frame = 5 it has
\* then emitted exactly 600 frames and returns initial_frame + 600.
C5_SimulateRunsToBudget ==
    pc \in {"done", "raised"} =>
        /\ pc = "done"
        /\ days_elapsed >= 3000
        /\ days_per_frame = 5 => (emitted = 600 /\ frame_i = initial_frame + 600)

\* C9: a frame is emitted only after a batch of exactly days_per_frame * 24
\* update_planets calls with delta = 3600; update_trail has run once per
\* emitted frame on every body still in the mapping, never on a body after
\* its removal, and never in a tick.
C9_BatchThenTrail ==
    /\ [][frame_i' # frame_i =>
            /\ batch = days_per_frame * 24
            /\ delta = 3600
            /\ frame_i' = frame_i + 1]_vars
    /\ [](\A k \in Keys(planets) : trail_updates[k] = emitted)
    /\ [][\A k \in DOMAIN trail_updates :
            trail_updates'[k] # trail_updates[k] =>
                /\ k \in Keys(planets)
                /\ batch' = 0
                /\ trail_updates'[k] = trail_updates[k] + 1]_vars

\* two frames are out: the survivor's trail was updated twice, the trail of a
\* body removed in the first batch never
C9_Witness ==
    /\ pc = "sim"
    /\ emitted = 2
    /\ \E k \in Keys(planets) : trail_updates[k] = 2
    /\ \E k \in DOMAIN trail_updates : k \notin Keys(planets) /\ trail_updates[k] = 0

====
